---- MODULE Spec2Model ----
(***************************************************************************)
(* Arena: two fighters on a plane, a gravity well at the arena centre,     *)
(* four circular walls, three fighter variants (Base, Heavy, Archer).      *)
(*                                                                         *)
(* Numbers.  The source computes on JavaScript numbers.  The model keeps   *)
(* hp, strength and the tick counters as integers (they are integers in    *)
(* the source) and keeps every quantity that can be fractional (positions, *)
(* velocities, radii, the Archer cooldown) in fixed point, Scale units per *)
(* 1.0.  Unit vectors, sines and cosines have Unit units per 1.0 and       *)
(* angles are in milliradians.  On configurations where both fighters lie  *)
(* on one axis through the arena centre every division of the collision    *)
(* code is exact, so the geometry there is the geometry over the reals.    *)
(***************************************************************************)
EXTENDS Integers, Sequences, FiniteSets, TLC

\* ------------------------------------------------------------------------
\* Fixed-point arithmetic
\* ------------------------------------------------------------------------
Scale == 100
Unit == 1000

Abs(a) == IF a < 0 THEN -a ELSE a
Max(a, b) == IF a >= b THEN a ELSE b
Min(a, b) == IF a <= b THEN a ELSE b

\* a / b rounded to the nearest integer (b > 0)
RDiv(a, b) == IF a >= 0 THEN (2 * a + b) \div (2 * b)
              ELSE -((2 * (-a) + b) \div (2 * b))

\* Math.floor(a / b) (b > 0)
FloorDiv(a, b) == a \div b

\* the only element of a one-element set.  Only({F(x) : x \in {e}}) is
\* F(e) with e evaluated once, as a statement sequence evaluates it
Only(S) == CHOOSE r \in S : TRUE

RECURSIVE SqrtIter(_, _)
SqrtIter(n, g) ==
    Only({ IF h >= g THEN g ELSE SqrtIter(n, h) : h \in {(g + n \div g) \div 2} })

\* Math.sqrt on a non-negative integer, rounded to the nearest integer
ISqrt(n) == IF n <= 0 THEN 0
            ELSE Only({ IF n - s * s > s THEN s + 1 ELSE s :
                        s \in {SqrtIter(n, IF n > 46340 THEN 46340 ELSE n)} })

\* Math.sqrt(dx * dx + dy * dy); the sum of squares is formed on a coarser
\* grid when it would leave the 32-bit range of TLC integers
Coarse == 16
Hypot(dx, dy) ==
    IF dy = 0 THEN Abs(dx)
    ELSE IF dx = 0 THEN Abs(dy)
    ELSE IF Abs(dx) <= 30000 /\ Abs(dy) <= 30000
         THEN ISqrt(dx * dx + dy * dy)
         ELSE Coarse * ISqrt(RDiv(dx, Coarse) * RDiv(dx, Coarse)
                             + RDiv(dy, Coarse) * RDiv(dy, Coarse))

\* Angles in milliradians
PI == 3142
HalfPi == 1571
TwoPi == 2 * PI

\* cosine of x for 0 <= x <= HalfPi, Unit units per 1.0 (Taylor, 4 terms)
CosQ(x) == LET x2 == RDiv(x * x, 1000)
               x4 == RDiv(x2 * x2, 1000)
               x6 == RDiv(x4 * x2, 1000)
           IN 1000 - RDiv(x2, 2) + RDiv(x4, 24) - RDiv(x6, 720)

\* Math.cos / Math.sin on an angle in milliradians
Cos(a) == LET r == a % TwoPi
              m == IF r > PI THEN TwoPi - r ELSE r
          IN IF m <= HalfPi THEN CosQ(m) ELSE -CosQ(PI - m)

\* sine of x for 0 <= x <= HalfPi, Unit units per 1.0 (Taylor, 4 terms)
SinQ(x) == LET x2 == RDiv(x * x, 1000)
               x3 == RDiv(x2 * x, 1000)
               x5 == RDiv(x3 * x2, 1000)
               x7 == RDiv(x5 * x2, 1000)
           IN Min(1000, x - RDiv(x3, 6) + RDiv(x5, 120) - RDiv(x7, 5040))

Sin(a) == LET r == a % TwoPi
          IN IF r <= HalfPi THEN SinQ(r)
             ELSE IF r <= PI THEN SinQ(PI - r)
             ELSE IF r <= PI + HalfPi THEN -SinQ(r - PI)
             ELSE -SinQ(TwoPi - r)


\* ------------------------------------------------------------------------
\* Fighter (abstract class) and its three variants
\* ------------------------------------------------------------------------
centerX == 0
centerY == 0

GRAVITY_STRENGTH == 50
DAMPING == 98
BALL_COLLISION_DAMPING == 150
WALL_COLLISION_DAMPING == 60
WALL_DISTANCE == 40000
WALL_RADIUS == 4000

FighterTypes == {"base", "heavy", "archer"}

\* fighter1.value = null
NoFighter == [type |-> "null"]

\* Fighter constructor: the fields of the abstract class with their
\* defaults, and the defaults of the variant fields
Fighter(type, x, y) ==
    [type |-> type, x |-> x, y |-> y, vx |-> 0, vy |-> 0,
     hp |-> 100, maxHp |-> 100, strength |-> 1, radius |-> 3000,
     dealsBodyDamage |-> TRUE,
     speedMultiplier |-> 100, strengthGainRate |-> 1,
     squareRotation |-> 0, shieldCharge |-> 0, hasShield |-> FALSE,
     regenTimer |-> 0,
     bullets |-> << >>, shootAngle |-> 0, shootCooldown |-> 0]

BaseFighter(x, y) ==
    [Fighter("base", x, y) EXCEPT !.speedMultiplier = 100, !.strengthGainRate = 1,
        !.hp = 100, !.maxHp = 100, !.strength = 1, !.radius = 3000]

HeavyFighter(x, y) ==
    [Fighter("heavy", x, y) EXCEPT !.speedMultiplier = 70, !.strengthGainRate = 2,
        !.hp = 250, !.maxHp = 250, !.strength = 2, !.radius = 5000,
        !.dealsBodyDamage = FALSE]

ArcherFighter(x, y) ==
    [Fighter("archer", x, y) EXCEPT !.speedMultiplier = 120, !.strengthGainRate = 1,
        !.hp = 150, !.maxHp = 150, !.strength = 3, !.radius = 2800,
        !.dealsBodyDamage = FALSE]

\* createFighter whose default case builds a Heavy fighter
createFighter_DefaultHeavy(type, x, y) ==
    CASE type = "base" -> BaseFighter(x, y)
      [] type = "heavy" -> HeavyFighter(x, y)
      [] type = "archer" -> ArcherFighter(x, y)
      [] OTHER -> HeavyFighter(x, y)

createFighter(type, x, y) ==
    CASE type = "base" -> BaseFighter(x, y)
      [] type = "heavy" -> HeavyFighter(x, y)
      [] type = "archer" -> ArcherFighter(x, y)
      [] OTHER -> BaseFighter(x, y)

\* Heavy: rotating square;  Archer: bullets
squareSize == 3000
squareDistance == 6000
squareRotationSpeed == 50
shootRotationSpeed == 80
shootCooldownMax == 3000
bulletSpeed == 800
bulletRadius == 500
BulletRange == 50000
ShieldThreshold == 180
RegenThreshold == 120

applyGravity(f) ==
    LET dx == centerX - f.x
        dy == centerY - f.y
        dist == Hypot(dx, dy)
    IN IF dist > 0
       THEN [f EXCEPT
              !.vx = @ + RDiv(RDiv(dx * Unit, dist) * GRAVITY_STRENGTH * f.speedMultiplier,
                              Unit * Scale),
              !.vy = @ + RDiv(RDiv(dy * Unit, dist) * GRAVITY_STRENGTH * f.speedMultiplier,
                              Unit * Scale)]
       ELSE f

applyDamping(f) ==
    [f EXCEPT !.vx = RDiv(@ * DAMPING, Scale), !.vy = RDiv(@ * DAMPING, Scale)]

updatePosition(f) == [f EXCEPT !.x = @ + f.vx, !.y = @ + f.vy]

isInCenterZone(f) == Hypot(f.x - centerX, f.y - centerY) < f.radius

\* Fighter.gainStrength that adds 1 whatever the variant
gainStrength_ByOne(f) == [f EXCEPT !.strength = @ + 1]

gainStrength(f) == [f EXCEPT !.strength = @ + f.strengthGainRate]

getDistanceTo(f, other) == Hypot(f.x - other.x, f.y - other.y)

\* Fighter.takeDamage without the clamp at zero
FighterTakeDamage_NoClamp(f, damage) == [f EXCEPT !.hp = @ - damage]

\* Fighter.takeDamage
FighterTakeDamage(f, damage) == [f EXCEPT !.hp = Max(0, @ - damage)]

\* HeavyFighter.takeDamage that halves the damage but keeps the shield armed
HeavyTakeDamage_KeepsShield(f, damage) ==
    IF f.hasShield
    THEN [f EXCEPT !.hp = Max(0, @ - FloorDiv(damage, 2))]
    ELSE [f EXCEPT !.hp = Max(0, @ - damage)]

\* HeavyFighter.takeDamage
HeavyTakeDamage(f, damage) ==
    IF f.hasShield
    THEN [f EXCEPT !.hp = Max(0, @ - FloorDiv(damage, 2)),
                   !.hasShield = FALSE, !.shieldCharge = 0]
    ELSE [f EXCEPT !.hp = Max(0, @ - damage)]

takeDamage(f, damage) ==
    IF f.type = "heavy" THEN HeavyTakeDamage(f, damage)
    ELSE FighterTakeDamage(f, damage)


\* BaseFighter.passiveAbility that also regenerates a knocked-out fighter
\* and a fighter at exactly half of maxHp
BasePassive_HealsAtHalf(f) ==
    LET t == f.regenTimer + 1
    IN IF 2 * f.hp <= f.maxHp /\ t >= RegenThreshold
       THEN [f EXCEPT !.hp = Min(f.maxHp, f.hp + 1), !.regenTimer = 0]
       ELSE [f EXCEPT !.regenTimer = t]

\* BaseFighter.passiveAbility that does not restart its timer
BasePassive_NoRestart(f) ==
    LET t == f.regenTimer + 1
    IN IF 2 * f.hp < f.maxHp /\ t >= RegenThreshold /\ f.hp # 0
       THEN [f EXCEPT !.hp = Min(f.maxHp, f.hp + 1), !.regenTimer = t]
       ELSE [f EXCEPT !.regenTimer = t]

\* BaseFighter.passiveAbility without the test hp !== 0
BasePassive_RevivesKnockedOut(f) ==
    LET t == f.regenTimer + 1
    IN IF 2 * f.hp < f.maxHp /\ t >= RegenThreshold
       THEN [f EXCEPT !.hp = Min(f.maxHp, f.hp + 1), !.regenTimer = 0]
       ELSE [f EXCEPT !.regenTimer = t]

\* BaseFighter.passiveAbility whose timer counts the ticks spent below half
\* of maxHp only
BasePassive_CountsBelowHalfOnly(f) ==
    LET t == IF 2 * f.hp < f.maxHp THEN f.regenTimer + 1 ELSE 0
    IN IF 2 * f.hp < f.maxHp /\ t >= RegenThreshold /\ f.hp # 0
       THEN [f EXCEPT !.hp = Min(f.maxHp, f.hp + 1), !.regenTimer = 0]
       ELSE [f EXCEPT !.regenTimer = t]

\* BaseFighter.passiveAbility
BasePassive(f) ==
    LET t == f.regenTimer + 1
    IN IF 2 * f.hp < f.maxHp /\ t >= RegenThreshold /\ f.hp # 0
       THEN [f EXCEPT !.hp = Min(f.maxHp, f.hp + 1), !.regenTimer = 0]
       ELSE [f EXCEPT !.regenTimer = t]

\* HeavyFighter.passiveAbility that charges the shield outside the zone too
HeavyPassive_ChargesAnywhere(f) ==
    LET r == [f EXCEPT !.squareRotation = @ + squareRotationSpeed]
        c == r.shieldCharge + 1
    IN IF c >= ShieldThreshold /\ ~r.hasShield
       THEN [r EXCEPT !.hasShield = TRUE, !.shieldCharge = 0]
       ELSE [r EXCEPT !.shieldCharge = c]

\* HeavyFighter.passiveAbility that keeps the charge when it arms the shield
HeavyPassive_KeepsChargeOnArming(f) ==
    LET r == [f EXCEPT !.squareRotation = @ + squareRotationSpeed]
    IN IF isInCenterZone(r)
       THEN LET c == r.shieldCharge + 1
            IN IF c >= ShieldThreshold /\ ~r.hasShield
               THEN [r EXCEPT !.hasShield = TRUE, !.shieldCharge = c]
               ELSE [r EXCEPT !.shieldCharge = c]
       ELSE r

\* HeavyFighter.passiveAbility
HeavyPassive(f) ==
    LET r == [f EXCEPT !.squareRotation = @ + squareRotationSpeed]
    IN IF isInCenterZone(r)
       THEN LET c == r.shieldCharge + 1
            IN IF c >= ShieldThreshold /\ ~r.hasShield
               THEN [r EXCEPT !.hasShield = TRUE, !.shieldCharge = 0]
               ELSE [r EXCEPT !.shieldCharge = c]
       ELSE r

\* ArcherFighter.shootBullet
shootBullet(f, angle) ==
    LET bullet ==
          [x |-> f.x + RDiv(Cos(angle) * f.radius, Unit),
           y |-> f.y + RDiv(Sin(angle) * f.radius, Unit),
           vx |-> RDiv(Cos(angle) * bulletSpeed * (100 + f.strength * 24), Unit * 100) + f.vx,
           vy |-> RDiv(Sin(angle) * bulletSpeed * (100 + f.strength * 25), Unit * 100) + f.vy,
           damage |-> f.strength,
           active |-> TRUE]
    IN [f EXCEPT !.bullets = Append(@, bullet)]

\* one bullet of ArcherFighter.updateBullets' forEach
MoveBullet(f, b) ==
    IF b.active
    THEN LET nx == b.x + b.vx
             ny == b.y + b.vy
         IN [b EXCEPT !.x = nx, !.y = ny,
                      !.active = ~(Hypot(nx - f.x, ny - f.y) > BulletRange)]
    ELSE b

IsActive(b) == b.active

\* ArcherFighter.updateBullets without its filter
updateBullets_KeepsInactive(f) ==
    [f EXCEPT !.bullets = [i \in 1..Len(f.bullets) |-> MoveBullet(f, f.bullets[i])]]

\* ArcherFighter.updateBullets
updateBullets(f) ==
    LET moved == [i \in 1..Len(f.bullets) |-> MoveBullet(f, f.bullets[i])]
    IN [f EXCEPT !.bullets = SelectSeq(moved, IsActive)]

\* ArcherFighter.passiveAbility
ArcherPassive(f) ==
    LET r == [f EXCEPT !.shootAngle = @ + shootRotationSpeed]
    IN Only({ updateBullets(s) :
              s \in { IF r.shootCooldown > 0
                      THEN [r EXCEPT !.shootCooldown = @ - Scale]
                      ELSE [shootBullet(r, r.shootAngle) EXCEPT
                              !.shootCooldown = shootCooldownMax - r.strength * 150] } })

passiveAbility(f) ==
    CASE f.type = "base" -> BasePassive(f)
      [] f.type = "heavy" -> HeavyPassive(f)
      [] f.type = "archer" -> ArcherPassive(f)

\* ArcherFighter.useSpecialAbility: eight bullets in a circle
RECURSIVE BurstFrom(_, _)
BurstFrom(f, i) ==
    IF i < 8
    THEN Only({ BurstFrom(g, i + 1) : g \in {shootBullet(f, RDiv(PI * 2 * i, 8))} })
    ELSE f

\* ArcherFighter.useSpecialAbility whose loop starts at 1
ArcherSpecial_FromOne(f) == BurstFrom(f, 1)

ArcherSpecial(f) == BurstFrom(f, 0)

\* the ground slam pushing a Heavy at the very centre along the x axis
HeavySpecial_PushAtCentre(f) ==
    LET dx == f.x - centerX
        dy == f.y - centerY
        dist == Hypot(dx, dy)
    IN IF dist < 10000
       THEN IF dist > 0
            THEN [f EXCEPT !.vx = @ + RDiv(RDiv(dx * Unit, dist) * 500, Unit),
                           !.vy = @ + RDiv(RDiv(dy * Unit, dist) * 500, Unit)]
            ELSE [f EXCEPT !.vx = @ + 500]
       ELSE f

\* HeavyFighter.useSpecialAbility: ground slam
HeavySpecial(f) ==
    LET dx == f.x - centerX
        dy == f.y - centerY
        dist == Hypot(dx, dy)
    IN IF dist < 10000 /\ dist > 0
       THEN [f EXCEPT !.vx = @ + RDiv(RDiv(dx * Unit, dist) * 500, Unit),
                      !.vy = @ + RDiv(RDiv(dy * Unit, dist) * 500, Unit)]
       ELSE f

\* BaseFighter.useSpecialAbility: dash towards the centre
BaseSpecial(f) ==
    LET dx == centerX - f.x
        dy == centerY - f.y
        dist == Hypot(dx, dy)
    IN IF dist > 20000
       THEN [f EXCEPT !.vx = @ + RDiv(RDiv(dx * Unit, dist) * 200, Unit),
                      !.vy = @ + RDiv(RDiv(dy * Unit, dist) * 200, Unit)]
       ELSE f

useSpecialAbility(f) ==
    CASE f.type = "base" -> BaseSpecial(f)
      [] f.type = "heavy" -> HeavySpecial(f)
      [] f.type = "archer" -> ArcherSpecial(f)

\* ArcherFighter.checkBulletCollision: the bullets after the scan
HitBullet(f, other, b) ==
    b.active /\ Hypot(b.x - other.x, b.y - other.y) < bulletRadius + other.radius

BulletsAfterCollision(f, other) ==
    [i \in 1..Len(f.bullets) |->
        IF HitBullet(f, other, f.bullets[i])
        THEN [f.bullets[i] EXCEPT !.active = FALSE]
        ELSE f.bullets[i]]

\* ArcherFighter.checkBulletCollision: the returned flag
checkBulletCollision(f, other) ==
    \E i \in 1..Len(f.bullets) : HitBullet(f, other, f.bullets[i])

getBulletDamage(f) == f.strength

\* HeavyFighter.getSquarePosition
getSquarePosition(f) ==
    [x |-> f.x + RDiv(Cos(f.squareRotation) * squareDistance, Unit),
     y |-> f.y + RDiv(Sin(f.squareRotation) * squareDistance, Unit)]

\* HeavyFighter.isPointInSquare
isPointInSquare(f, px, py) ==
    LET center == getSquarePosition(f)
        dx == px - center.x
        dy == py - center.y
        cos == Cos(-f.squareRotation)
        sin == Sin(-f.squareRotation)
        localX == RDiv(dx * cos - dy * sin, Unit)
        localY == RDiv(dx * sin + dy * cos, Unit)
        halfSize == squareSize \div 2
    IN Abs(localX) <= halfSize /\ Abs(localY) <= halfSize

\* Math.sqrt(2), Unit units per 1.0
Sqrt2 == 1414

\* HeavyFighter.checkSquareCollisionWithFighter
checkSquareCollisionWithFighter(f, other) ==
    LET squareCenter == getSquarePosition(f)
        dx == other.x - squareCenter.x
        dy == other.y - squareCenter.y
        dist == Hypot(dx, dy)
        halfSize == squareSize \div 2
        maxDist == RDiv(Sqrt2 * halfSize, Unit) + other.radius
    IN IF dist > maxDist THEN FALSE
       ELSE isPointInSquare(f, other.x, other.y) \/ dist < halfSize + other.radius

\* updateWalls: Top, Right, Bottom, Left
walls ==
    << [x |-> centerX, y |-> centerY - WALL_DISTANCE, radius |-> WALL_RADIUS],
       [x |-> centerX + WALL_DISTANCE, y |-> centerY, radius |-> WALL_RADIUS],
       [x |-> centerX, y |-> centerY + WALL_DISTANCE, radius |-> WALL_RADIUS],
       [x |-> centerX - WALL_DISTANCE, y |-> centerY, radius |-> WALL_RADIUS] >>

\* checkCollisionWithWall that pushes the fighter out by half of the overlap
checkCollisionWithWall_HalfPush(fighter, wall) ==
    LET dx == fighter.x - wall.x
        dy == fighter.y - wall.y
        dist == Hypot(dx, dy)
        minDist == fighter.radius + wall.radius
    IN IF dist < minDist /\ dist > 0
       THEN LET nx == RDiv(dx * Unit, dist)
                ny == RDiv(dy * Unit, dist)
                overlap == minDist - dist
            IN [fighter EXCEPT !.x = @ + RDiv(nx * overlap, 2 * Unit),
                               !.y = @ + RDiv(ny * overlap, 2 * Unit)]
       ELSE fighter

checkCollisionWithWall(fighter, wall) ==
    LET dx == fighter.x - wall.x
        dy == fighter.y - wall.y
        dist == Hypot(dx, dy)
        minDist == fighter.radius + wall.radius
    IN IF dist < minDist /\ dist > 0
       THEN LET nx == RDiv(dx * Unit, dist)
                ny == RDiv(dy * Unit, dist)
                overlap == minDist - dist
                pushed == [fighter EXCEPT !.x = @ + RDiv(nx * overlap, Unit),
                                          !.y = @ + RDiv(ny * overlap, Unit)]
                dotProduct == RDiv(fighter.vx * nx + fighter.vy * ny, Unit)
            IN IF dotProduct < 0
               THEN [pushed EXCEPT
                      !.vx = @ - RDiv(nx * dotProduct * WALL_COLLISION_DAMPING, Unit * Scale),
                      !.vy = @ - RDiv(ny * dotProduct * WALL_COLLISION_DAMPING, Unit * Scale)]
               ELSE pushed
       ELSE fighter

\* walls.value.forEach(wall => checkCollisionWithWall(fighter, wall))
RECURSIVE WallsFrom(_, _)
WallsFrom(fighter, i) ==
    IF i > Len(walls) THEN fighter
    ELSE Only({ WallsFrom(g, i + 1) : g \in {checkCollisionWithWall(fighter, walls[i])} })


\* ------------------------------------------------------------------------
\* The component: game state, tick, strength timer, start and reset
\* ------------------------------------------------------------------------
VARIABLES
    gameStarted,       \* gameStarted.value
    fighter1,          \* fighter1.value (NoFighter for null)
    fighter2,          \* fighter2.value
    ballsInCollision,  \* the shared contact flag
    rafPending,        \* animation frames requested and not yet run or cancelled
    timers,            \* strength intervals set and not cleared
    budget,            \* ticks the model still allows (bounds the exploration)
    timerBudget,       \* strength-timer callbacks the model still allows
    lastTick,          \* what the most recent updatePhysics did (observation)
    prevTick,          \* what the updatePhysics before that one did (observation)
    hist,              \* per-fighter tick counts kept beside the program (observation)
    specialBudget,     \* useSpecialAbility calls the model still allows
    lastSpecial        \* what the most recent useSpecialAbility did (observation)

vars == <<gameStarted, fighter1, fighter2, ballsInCollision, rafPending, timers,
          budget, timerBudget, lastTick, prevTick, hist, specialBudget, lastSpecial>>

\* Math.random(): RandValues / RandDen, a value of [0, 1)
RandDen == 4
MaxRand == 1
RandValues == 0..Min(MaxRand, RandDen - 1)

\* one takeDamage call of updatePhysics, as observed
DamageEvent(target, kind, amount, before, after) ==
    [target |-> target, kind |-> kind, amount |-> amount,
     hpBefore |-> before.hp, hpAfter |-> after.hp,
     armedBefore |-> before.hasShield, armedAfter |-> after.hasShield,
     chargeBefore |-> before.shieldCharge, chargeAfter |-> after.shieldCharge]

\* the integration of a tick moving the fighter before it damps the velocity
AtCollisionStep_PositionFirst(f) ==
    Only({ passiveAbility(q) :
           q \in { applyDamping(d) :
                   d \in { updatePosition(g) : g \in {applyGravity(f)} } } })

\* the fighters at the collision step of a tick: after gravity, damping,
\* position update and passive abilities
AtCollisionStep(f) ==
    Only({ passiveAbility(q) :
           q \in { updatePosition(d) :
                   d \in { applyDamping(g) : g \in {applyGravity(f)} } } })

\* the fighter-fighter branch of updatePhysics is entered
BodiesCollide(p1, p2) ==
    LET dist == getDistanceTo(p1, p2)
    IN dist < p1.radius + p2.radius /\ dist > 0

\* body damage dealt on first contact whatever the squares and bullets did
FirstContact_DespiteHits(collide, flag, squareHit, bulletHit) ==
    collide /\ ~flag

\* body damage dealt on every tick of a contact
FirstContact_EveryTick(collide, flag, squareHit, bulletHit) ==
    collide /\ ~squareHit /\ ~bulletHit

\* updatePhysics, lines 533 and 535: body damage is dealt on first contact
FirstContact(collide, flag, squareHit, bulletHit) ==
    collide /\ ~flag /\ ~squareHit /\ ~bulletHit

\* the contact flag without the branch for a hit at a distance
NewFlag_OverlapOnly(collide, squareHit, bulletHit) ==
    IF collide
    THEN (IF squareHit \/ bulletHit THEN TRUE ELSE TRUE)
    ELSE FALSE

\* updatePhysics, lines 544 to 548 and 573 to 578: the contact flag
NewFlag(collide, squareHit, bulletHit) ==
    IF collide
    THEN (IF squareHit \/ bulletHit THEN TRUE ELSE TRUE)
    ELSE IF squareHit \/ bulletHit THEN TRUE
    ELSE FALSE

\* updatePhysics, lines 501 to 516: the square of fighter att against
\* fighter def, which is fighter number target
SquareAttack(att, def, flag, target) ==
    LET hit == att.type = "heavy" /\ checkSquareCollisionWithFighter(att, def) /\ ~flag
    IN IF hit
       THEN Only({ [hit |-> TRUE, att |-> att, def |-> hurt,
                    events |-> << DamageEvent(target, "square", att.strength, def, hurt) >>] :
                   hurt \in {takeDamage(def, att.strength)} })
       ELSE [hit |-> FALSE, att |-> att, def |-> def, events |-> << >>]

\* the bullet step with takeDamage called inside the loop over the bullets,
\* once for every bullet that hits
BulletAttack_PerBullet(att, def, target) ==
    IF att.type = "archer"
    THEN LET scanned == [att EXCEPT !.bullets = BulletsAfterCollision(att, def)]
             RECURSIVE Apply(_, _)
             Apply(k, acc) ==
                 IF k > Len(att.bullets) THEN acc
                 ELSE IF HitBullet(att, def, att.bullets[k])
                 THEN Apply(k + 1,
                            Only({ [def |-> hurt,
                                    events |-> Append(acc.events,
                                        DamageEvent(target, "bullet",
                                                    getBulletDamage(scanned), acc.def, hurt))] :
                                   hurt \in {takeDamage(acc.def, getBulletDamage(scanned))} }))
                 ELSE Apply(k + 1, acc)
         IN Only({ [hit |-> res.events # << >>, att |-> scanned, def |-> res.def,
                    events |-> res.events] :
                   res \in {Apply(1, [def |-> def, events |-> << >>])} })
    ELSE [hit |-> FALSE, att |-> att, def |-> def, events |-> << >>]

\* updatePhysics, lines 520 to 531: the bullets of fighter att against
\* fighter def, which is fighter number target
BulletAttack(att, def, target) ==
    IF att.type = "archer"
    THEN LET scanned == [att EXCEPT !.bullets = BulletsAfterCollision(att, def)]
         IN IF checkBulletCollision(att, def)
            THEN Only({ [hit |-> TRUE, att |-> scanned, def |-> hurt,
                         events |-> << DamageEvent(target, "bullet",
                                                   getBulletDamage(scanned), def, hurt) >>] :
                        hurt \in {takeDamage(def, getBulletDamage(scanned))} })
            ELSE [hit |-> FALSE, att |-> scanned, def |-> def, events |-> << >>]
    ELSE [hit |-> FALSE, att |-> att, def |-> def, events |-> << >>]

\* body damage measured by the strength of the fighter that receives it
BodyDamageOf_OwnStrength(attacker, target) == target.strength

\* updatePhysics, lines 537 and 540: the amount of body damage
BodyDamageOf(attacker, target) == attacker.strength

\* updatePhysics, lines 496, 497 and 533 to 548, 573 to 578: the distance
\* taken before the hits, body damage on first contact and the contact
\* flag; b1, b2 are the fighters after the square and bullet hits
DetectCollisions(dist, minDist, b1, b2, flag, squareHit, bulletHit) ==
    LET collide == dist < minDist /\ dist > 0
        first == FirstContact(collide, flag, squareHit, bulletHit)
        bd1 == first /\ b1.dealsBodyDamage
        d2 == IF bd1 THEN takeDamage(b2, BodyDamageOf(b1, b2)) ELSE b2
        bd2 == first /\ d2.dealsBodyDamage
        d1 == IF bd2 THEN takeDamage(b1, BodyDamageOf(d2, b1)) ELSE b1
    IN [f1 |-> d1, f2 |-> d2, flag |-> NewFlag(collide, squareHit, bulletHit),
        collide |-> collide, dist |-> dist, minDist |-> minDist,
        squareHit |-> squareHit, bulletHit |-> bulletHit,
        events |->
            (IF bd1 THEN << DamageEvent(2, "body", BodyDamageOf(b1, b2), b2, d2) >>
             ELSE << >>)
            \o (IF bd2 THEN << DamageEvent(1, "body", BodyDamageOf(d2, b1), b1, d1) >>
                ELSE << >>)]

\* updatePhysics, lines 550 to 554: the collision normal <<nx, ny>>
Normal(d1, d2) ==
    LET dist == getDistanceTo(d1, d2)
    IN << RDiv((d2.x - d1.x) * Unit, dist), RDiv((d2.y - d1.y) * Unit, dist) >>

\* the separation pushing each fighter by a quarter of the overlap
Separate_QuarterPush(d1, d2, rnd) ==
    LET dist == getDistanceTo(d1, d2)
        minDist == d1.radius + d2.radius
        nx == Normal(d1, d2)[1]
        ny == Normal(d1, d2)[2]
        overlap == minDist - dist
        dvx == d2.vx - d1.vx
        dvy == d2.vy - d1.vy
        dotProduct == RDiv(dvx * nx + dvy * ny, Unit)
        Impulse(n, r) ==
            RDiv(RDiv(n * dotProduct, Unit) * BALL_COLLISION_DAMPING * 2 * r, Scale * RandDen)
    IN << [d1 EXCEPT !.x = @ - RDiv(nx * overlap, 4 * Unit),
                     !.y = @ - RDiv(ny * overlap, 4 * Unit),
                     !.vx = @ + Impulse(nx, rnd[1]),
                     !.vy = @ + Impulse(ny, rnd[2])],
          [d2 EXCEPT !.x = @ + RDiv(nx * overlap, 4 * Unit),
                     !.y = @ + RDiv(ny * overlap, 4 * Unit),
                     !.vx = @ - Impulse(nx, rnd[3]),
                     !.vy = @ - Impulse(ny, rnd[4])] >>

\* updatePhysics, lines 550 to 572: separation and impulse of two colliding
\* fighters; rnd is the four Math.random() results
Separate(d1, d2, rnd) ==
    LET dist == getDistanceTo(d1, d2)
        minDist == d1.radius + d2.radius
        nx == Normal(d1, d2)[1]
        ny == Normal(d1, d2)[2]
        overlap == minDist - dist
        dvx == d2.vx - d1.vx
        dvy == d2.vy - d1.vy
        dotProduct == RDiv(dvx * nx + dvy * ny, Unit)
        Impulse(n, r) ==
            RDiv(RDiv(n * dotProduct, Unit) * BALL_COLLISION_DAMPING * 2 * r, Scale * RandDen)
    IN << [d1 EXCEPT !.x = @ - RDiv(nx * overlap, 2 * Unit),
                     !.y = @ - RDiv(ny * overlap, 2 * Unit),
                     !.vx = @ + Impulse(nx, rnd[1]),
                     !.vy = @ + Impulse(ny, rnd[2])],
          [d2 EXCEPT !.x = @ + RDiv(nx * overlap, 2 * Unit),
                     !.y = @ + RDiv(ny * overlap, 2 * Unit),
                     !.vx = @ - Impulse(nx, rnd[3]),
                     !.vy = @ - Impulse(ny, rnd[4])] >>

\* updatePhysics, lines 550 to 584, on the outcome det of DetectCollisions:
\* the fighters before and after the walls
ResolveCollisions(det, rnd) ==
    Only({ [f1 |-> WallsFrom(c[1], 1), f2 |-> WallsFrom(c[2], 1), beforeWalls |-> c] :
           c \in { IF det.collide THEN Separate(det.f1, det.f2, rnd)
                   ELSE <<det.f1, det.f2>> } })

\* the Math.random() results a tick can draw: they are used only in the
\* fighter-fighter branch, and a result multiplied by a zero component of
\* the normal changes nothing, so it is taken as 0
Draws(det) ==
    IF det.collide
    THEN LET n == Normal(det.f1, det.f2)
         IN { r \in [1..4 -> RandValues] :
                /\ (n[1] = 0 => r[1] = 0 /\ r[3] = 0)
                /\ (n[2] = 0 => r[2] = 0 /\ r[4] = 0) }
    ELSE {[i \in 1..4 |-> 0]}

\* no updatePhysics has run yet
NoTick == [ran |-> FALSE]

\* no useSpecialAbility has run yet
NoSpecial == [ran |-> FALSE]

\* Bounds of the exploration
MaxTicksFree == 30
MaxTicksContact == 2
MaxTicksRest == 190
MaxTicksGrowth == 5
MaxTicksHazard == 3
MaxTimerFires == 2
MaxSpecials == 1

\* Observation counters, one per fighter:
\*   zone : passive ticks spent in the centre zone since the fighter was
\*          created or its shield was last consumed
\*   low  : passive ticks run with 0 < hp < 50% of maxHp since hp last went
\*          below the threshold or since the last regeneration
\*   regen: passive ticks run since the fighter was created or since the last
\*          regeneration
NoHist == [zone |-> <<0, 0>>, low |-> <<0, 0>>, regen |-> <<0, 0>>]

Consumed(obs, i) ==
    \E k \in 1..Len(obs.events) :
        obs.events[k].target = i /\ obs.events[k].armedBefore /\ ~obs.events[k].armedAfter

Healed(obs, i) == obs.atStep[i].hp > obs.before[i].hp

BelowHalf(f) == 2 * f.hp < f.maxHp /\ f.hp # 0

\* the fighter is in the centre zone when its passive ability runs
InZoneAtPassive(f) == isInCenterZone(updatePosition(applyDamping(applyGravity(f))))

HistAfter(h, obs) ==
    [zone |-> [i \in 1..2 |->
                 IF Consumed(obs, i) THEN 0
                 ELSE IF InZoneAtPassive(obs.before[i]) THEN h.zone[i] + 1
                 ELSE h.zone[i]],
     low |-> [i \in 1..2 |->
                 IF Healed(obs, i) THEN 0
                 ELSE IF BelowHalf(obs.before[i]) THEN h.low[i] + 1
                 ELSE 0],
     regen |-> [i \in 1..2 |->
                 IF Healed(obs, i) THEN 0 ELSE h.regen[i] + 1]]

\* an early return that also leaves when a fighter is knocked out
EarlyReturn_AtKnockout(fa, fb) ==
    fa = NoFighter \/ fb = NoFighter \/ fa.hp = 0 \/ fb.hp = 0

\* updatePhysics, line 477: if (!fighter1.value || !fighter2.value) return
EarlyReturn(fa, fb) == fa = NoFighter \/ fb = NoFighter

\* updatePhysics on fighters fa, fb, with its early return and its request
\* for the next frame; h is the observation history so far
updatePhysics(fa, fb, started, pending, h) ==
    IF EarlyReturn(fa, fb)
    THEN /\ UNCHANGED <<fighter1, fighter2, ballsInCollision, lastTick, prevTick, hist>>
         /\ rafPending' = pending
    ELSE \E p1 \in {AtCollisionStep(fa)}, p2 \in {AtCollisionStep(fb)} :
         \E sq1 \in {SquareAttack(p1, p2, ballsInCollision, 2)} :
         \E sq2 \in {SquareAttack(sq1.def, sq1.att, ballsInCollision, 1)} :
         \E bh1 \in {BulletAttack(sq2.def, sq2.att, 2)} :
         \E bh2 \in {BulletAttack(bh1.def, bh1.att, 1)} :
         \E det \in {DetectCollisions(getDistanceTo(p1, p2), p1.radius + p2.radius,
                                      bh2.def, bh2.att, ballsInCollision,
                                      sq1.hit \/ sq2.hit, bh1.hit \/ bh2.hit)} :
         \E rnd \in Draws(det) :
         \E res \in {ResolveCollisions(det, rnd)} :
         \E obs \in {[ran |-> TRUE, hist |-> h, flagBefore |-> ballsInCollision,
                      before |-> <<fa, fb>>, atStep |-> <<p1, p2>>,
                      beforeWalls |-> res.beforeWalls, after |-> <<res.f1, res.f2>>,
                      dist |-> det.dist, minDist |-> det.minDist,
                      squareHit |-> det.squareHit, bulletHit |-> det.bulletHit,
                      events |-> sq1.events \o sq2.events \o bh1.events
                                 \o bh2.events \o det.events]} :
            /\ fighter1' = res.f1
            /\ fighter2' = res.f2
            /\ ballsInCollision' = det.flag
            /\ lastTick' = obs
            /\ prevTick' = lastTick
            /\ hist' = HistAfter(h, obs)
            /\ rafPending' = IF started THEN pending + 1 ELSE pending

\* startGame, enabled by the selection screen (shown while not started);
\* t1, t2 are selectedFighter1Type, selectedFighter2Type
StartGame(t1, t2) ==
    /\ ~gameStarted
    /\ budget > 0
    /\ updatePhysics(createFighter(t1, centerX - 20000, centerY - 20000),
                     createFighter(t2, centerX + 20000, centerY + 20000),
                     TRUE, rafPending, NoHist)
    /\ gameStarted' = TRUE
    /\ timers' = timers + 1
    /\ budget' = Min(budget, MaxTicksFree) - 1
    /\ UNCHANGED <<timerBudget, specialBudget, lastSpecial>>

\* the animation frame callback
Tick ==
    /\ rafPending > 0
    /\ budget > 0
    /\ updatePhysics(fighter1, fighter2, gameStarted, rafPending - 1, hist)
    /\ budget' = budget - 1
    /\ UNCHANGED <<gameStarted, timers, timerBudget, specialBudget, lastSpecial>>

\* the interval callback: checkAndIncreaseStrength
checkAndIncreaseStrength ==
    /\ timers > 0
    /\ timerBudget > 0
    /\ IF fighter1 = NoFighter \/ fighter2 = NoFighter
       THEN UNCHANGED <<fighter1, fighter2, timerBudget>>
       ELSE /\ timerBudget' = IF isInCenterZone(fighter1) \/ isInCenterZone(fighter2)
                              THEN timerBudget - 1 ELSE timerBudget
            /\ fighter1' = IF isInCenterZone(fighter1) THEN gainStrength(fighter1)
                           ELSE fighter1
            /\ fighter2' = IF isInCenterZone(fighter2) THEN gainStrength(fighter2)
                           ELSE fighter2
    /\ UNCHANGED <<gameStarted, ballsInCollision, rafPending, timers, budget,
                   lastTick, prevTick, hist, specialBudget, lastSpecial>>

\* resetGame that does not clear the strength interval
resetGame_KeepsTimer ==
    /\ gameStarted
    /\ rafPending' = IF rafPending > 0 THEN rafPending - 1 ELSE rafPending
    /\ gameStarted' = FALSE
    /\ fighter1' = NoFighter
    /\ fighter2' = NoFighter
    /\ ballsInCollision' = FALSE
    /\ lastTick' = NoTick
    /\ prevTick' = NoTick
    /\ hist' = NoHist
    /\ budget' = Min(budget, MaxTicksContact)
    /\ lastSpecial' = NoSpecial
    /\ UNCHANGED <<timers, timerBudget, specialBudget>>

\* resetGame, enabled by the Reset / Play Again buttons (shown while started)
resetGame ==
    /\ gameStarted
    /\ rafPending' = IF rafPending > 0 THEN rafPending - 1 ELSE rafPending
    /\ timers' = IF timers > 0 THEN timers - 1 ELSE timers
    /\ gameStarted' = FALSE
    /\ fighter1' = NoFighter
    /\ fighter2' = NoFighter
    /\ ballsInCollision' = FALSE
    /\ lastTick' = NoTick
    /\ prevTick' = NoTick
    /\ hist' = NoHist
    /\ budget' = Min(budget, MaxTicksContact)
    /\ lastSpecial' = NoSpecial
    /\ UNCHANGED <<timerBudget, specialBudget>>

\* fighter.useSpecialAbility(centerX, centerY) on fighter i: part of the
\* fighters' contract, invoked on an explicit trigger between two ticks
SpecialAbility(i) ==
    /\ gameStarted
    /\ fighter1 # NoFighter /\ fighter2 # NoFighter
    /\ specialBudget > 0
    /\ specialBudget' = specialBudget - 1
    /\ LET f == IF i = 1 THEN fighter1 ELSE fighter2
           g == useSpecialAbility(f)
       IN /\ fighter1' = IF i = 1 THEN g ELSE fighter1
          /\ fighter2' = IF i = 2 THEN g ELSE fighter2
          /\ lastSpecial' = [ran |-> TRUE, who |-> i, before |-> f, after |-> g]
    /\ UNCHANGED <<gameStarted, ballsInCollision, rafPending, timers, budget,
                   timerBudget, lastTick, prevTick, hist>>

\* ------------------------------------------------------------------------
\* Initial states: the component after setup, and games in progress
\* ------------------------------------------------------------------------
\* the component after setup: selection screen, no fighters
Setup(ticks) ==
    /\ gameStarted = FALSE
    /\ fighter1 = NoFighter
    /\ fighter2 = NoFighter
    /\ ballsInCollision = FALSE
    /\ rafPending = 0
    /\ timers = 0
    /\ budget = ticks
    /\ timerBudget = MaxTimerFires
    /\ lastTick = NoTick
    /\ prevTick = NoTick
    /\ hist = NoHist
    /\ specialBudget = MaxSpecials
    /\ lastSpecial = NoSpecial

Fresh == Setup(MaxTicksFree)

\* the counters of a game in progress: an unarmed Heavy's charge is its
\* count of zone ticks, a Base fighter's timer is its count of ticks since
\* the last regeneration, and a fighter below half hp is taken to have been
\* there since its timer last restarted
HistOf(fa, fb) ==
    LET fs == <<fa, fb>>
    IN [zone |-> [i \in 1..2 |-> fs[i].shieldCharge],
        low |-> [i \in 1..2 |-> IF BelowHalf(fs[i]) THEN fs[i].regenTimer ELSE 0],
        regen |-> [i \in 1..2 |-> fs[i].regenTimer]]

Game(fa, fb, flag, ticks, fires) ==
    [f1 |-> fa, f2 |-> fb, flag |-> flag, ticks |-> ticks, fires |-> fires]

\* a game in progress between two ticks: one frame and one interval pending
Running(g) ==
    /\ gameStarted = TRUE
    /\ fighter1 = g.f1
    /\ fighter2 = g.f2
    /\ ballsInCollision = g.flag
    /\ rafPending = 1
    /\ timers = 1
    /\ budget = g.ticks
    /\ timerBudget = g.fires
    /\ lastTick = NoTick
    /\ prevTick = NoTick
    /\ hist = HistOf(g.f1, g.f2)
    /\ specialBudget = MaxSpecials
    /\ lastSpecial = NoSpecial

\* fighter f at signed distance s from the centre on an axis, moving at
\* signed speed v along it
OnAxis(f, axis, s, v) ==
    IF axis = "x" THEN [f EXCEPT !.x = centerX + s, !.y = centerY, !.vx = v, !.vy = 0]
    ELSE [f EXCEPT !.x = centerX, !.y = centerY + s, !.vx = 0, !.vy = v]

\* the angle of the direction from the negative towards the positive end of
\* an axis, and the opposite one
AimUp(axis) == IF axis = "x" THEN 0 ELSE HalfPi
AimDown(axis) == IF axis = "x" THEN PI ELSE PI + HalfPi

\* <<hp, regenTimer>> of the Base fighters in progress
BaseChoices == {<<100, 0>>, <<50, 200>>, <<50, 119>>, <<49, 119>>, <<3, 50>>,
                <<1, 0>>, <<0, 200>>}
\* <<hp, hasShield, shieldCharge>> of the Heavy fighters in progress
HeavyChoices == {<<250, FALSE, 0>>, <<250, TRUE, 0>>, <<1, TRUE, 5>>,
                 <<1, FALSE, 0>>, <<0, FALSE, 0>>}
\* <<hp, shootCooldown>> of the Archer fighters in progress
ArcherChoices == {<<150, 0>>, <<2, 0>>, <<0, 0>>, <<150, 50>>}

\* fighters in progress of one type; aims are the angles their square or
\* their next bullet can have
InProgress(type, aims) ==
    CASE type = "base" ->
           {[BaseFighter(0, 0) EXCEPT !.hp = c[1], !.regenTimer = c[2]] : c \in BaseChoices}
      [] type = "heavy" ->
           {[HeavyFighter(0, 0) EXCEPT !.hp = c[1], !.hasShield = c[2],
                                       !.shieldCharge = c[3],
                                       !.squareRotation = a - squareRotationSpeed] :
              c \in HeavyChoices, a \in aims}
      [] type = "archer" ->
           {[ArcherFighter(0, 0) EXCEPT !.hp = c[1], !.shootCooldown = c[2],
                                        !.shootAngle = a - shootRotationSpeed] :
              c \in ArcherChoices, a \in aims}

\* opponents as created, their square or next bullet pointing at aim
Opponents(aim) ==
    { BaseFighter(0, 0),
      [HeavyFighter(0, 0) EXCEPT !.squareRotation = aim - squareRotationSpeed],
      [ArcherFighter(0, 0) EXCEPT !.shootAngle = aim - shootRotationSpeed] }

AnyInProgress(axis) ==
    UNION {InProgress(t, {AimUp(axis), AimDown(axis)}) : t \in FighterTypes}

\* two fighters about to touch on the x axis, closing in on each other:
\* a fighter in progress against an opponent that aims at it, either way round
ContactGames ==
    { Game(OnAxis(fa, "x", -(fa.radius + 100), 300),
           OnAxis(fb, "x", fb.radius + 100, -300), FALSE, MaxTicksContact, 1) :
        fa \in AnyInProgress("x"), fb \in Opponents(AimDown("x")) }
    \cup
    { Game(OnAxis(fa, "x", -(fa.radius + 100), 300),
           OnAxis(fb, "x", fb.radius + 100, -300), FALSE, MaxTicksContact, 1) :
        fa \in Opponents(AimUp("x")), fb \in AnyInProgress("x") }

\* the same on the y axis, with fighters as created
ContactGamesY ==
    { Game(OnAxis(fa, "y", -(fa.radius + 100), 300),
           OnAxis(fb, "y", fb.radius + 100, -300), FALSE, MaxTicksContact, 1) :
        fa \in Opponents(AimUp("y")), fb \in Opponents(AimDown("y")) }

\* both fighters at rest at the arena centre (no gravity, no fighter-fighter
\* response at distance zero): long quiet runs in the centre zone
AtRest(f) == OnAxis(f, "x", 0, 0)

RestGames ==
    { Game(AtRest(fa), AtRest(fb), FALSE, MaxTicksRest, 0) :
        fa \in {HeavyFighter(0, 0)},
        fb \in {[ArcherFighter(0, 0) EXCEPT !.strength = 19],
                HeavyFighter(0, 0),
                [BaseFighter(0, 0) EXCEPT !.hp = 48]} }
    \cup
    { Game(AtRest([BaseFighter(0, 0) EXCEPT !.hp = 49]),
           AtRest([HeavyFighter(0, 0) EXCEPT !.shieldCharge = 100]),
           FALSE, MaxTicksRest, 0) }

\* an Archer whose strength has grown, in the centre zone: the strength
\* timer takes it to 20 and beyond
GrowthGames ==
    { Game(AtRest([ArcherFighter(0, 0) EXCEPT !.strength = 19]),
           AtRest(fb), FALSE, MaxTicksGrowth, MaxTimerFires) :
        fb \in {BaseFighter(0, 0)} }

\* a fighter flung at a wall: it lands on the wall's centre, short of it by
\* Near, past it by Near, or Far short of it; the opponent rests at the centre
WallAxes == {<<"y", -1>>, <<"x", 1>>, <<"y", 1>>, <<"x", -1>>}
Near == 3000
Far == 9800
FlungSpeed == 10000
Landing == RDiv(FlungSpeed * DAMPING, Scale)

Flung(f, w, off) ==
    OnAxis(f, w[1], w[2] * (WALL_DISTANCE - Landing + off),
           w[2] * (FlungSpeed + RDiv(GRAVITY_STRENGTH * f.speedMultiplier, Scale)))

WallGames ==
    { Game(Flung(createFighter(t, 0, 0), w, off), AtRest(BaseFighter(0, 0)),
           FALSE, MaxTicksContact, 0) :
        t \in FighterTypes, w \in WallAxes, off \in {0, -Near, Near, -Far} }
    \cup
    { Game(AtRest(BaseFighter(0, 0)), Flung(createFighter(t, 0, 0), w, off),
           FALSE, MaxTicksContact, 0) :
        t \in FighterTypes, w \in {<<"x", 1>>, <<"y", -1>>}, off \in {0, -Near} }

\* two Base fighters about to touch, one of which has gained strength
UnevenGames ==
    { Game(OnAxis([BaseFighter(0, 0) EXCEPT !.strength = 4], "x", -3100, 300),
           OnAxis(BaseFighter(0, 0), "x", 3100, -300), FALSE, MaxTicksContact, 1) }

\* a Heavy at the arena centre and a Base fighter at rest outside the centre
\* zone: at exactly its radius from the centre, or Far from it
ZoneGames ==
    { Game(AtRest(HeavyFighter(0, 0)), OnAxis(BaseFighter(0, 0), "x", d, 0),
           FALSE, MaxTicksContact, MaxTimerFires) : d \in {3000, Far} }

\* both fighters knocked out, at rest at the arena centre; the Base
\* fighter's regeneration timer is about to pass the threshold
KnockedOutGames ==
    { Game(AtRest([createFighter(t, 0, 0) EXCEPT !.hp = 0]),
           AtRest([BaseFighter(0, 0) EXCEPT !.hp = 0, !.regenTimer = RegenThreshold - 1]),
           FALSE, MaxTicksContact, 1) : t \in FighterTypes }

\* a Heavy at rest at the arena centre, its square towards a Base fighter at
\* rest on the x axis, 90 px away: the square reaches the Base fighter, the
\* two circles (radii 50 and 30) stay apart
HazardGames ==
    { Game(AtRest(HeavyFighter(0, 0)), OnAxis(BaseFighter(0, 0), "x", 9000, 0),
           FALSE, MaxTicksHazard, 0) }

\* a Heavy whose square points away and an Archer in cooldown, about to
\* touch on the x axis: their circles overlap and nothing else hits
OverlapGames ==
    { Game(OnAxis([HeavyFighter(0, 0) EXCEPT
                      !.squareRotation = AimDown("x") - squareRotationSpeed],
                  "x", -(5000 + 100), 300),
           OnAxis([ArcherFighter(0, 0) EXCEPT !.shootCooldown = shootCooldownMax],
                  "x", 2800 + 100, -300),
           FALSE, MaxTicksContact, 0) }

\* an Archer at rest at the arena centre whose strength has grown to 20 and
\* whose cooldown has run out (from then on it shoots on every tick), its
\* next bullet aimed along the x axis at a Base fighter that comes in at
\* 15 px a tick from 130 px away, or that is at rest 70 px away
BarrageGames ==
    { Game(AtRest([ArcherFighter(0, 0) EXCEPT !.strength = 20,
                                              !.shootAngle = AimUp("x") - shootRotationSpeed]),
           OnAxis(BaseFighter(0, 0), "x", c[1], c[2]),
           FALSE, MaxTicksContact, 0) : c \in {<<13000, -1500>>, <<7000, 0>>} }

\* an Archer as created at rest at the arena centre, its next bullet aimed
\* along the x axis at a Base fighter at rest 80 px away: the bullet of the
\* first tick reaches the Base fighter on the second, and the strength timer
\* can fire in between
DelayedHitGames ==
    { Game(AtRest([ArcherFighter(0, 0) EXCEPT
                      !.shootAngle = AimUp("x") - shootRotationSpeed]),
           OnAxis(BaseFighter(0, 0), "x", 8000, 0),
           FALSE, MaxTicksContact, 1) }

\* a fighter at rest on the x axis just clear of the right wall (the wall's
\* edge is WALL_DISTANCE - WALL_RADIUS from the centre) and a Base fighter
\* that runs into it from the centre's side
WallsideGames ==
    { Game(OnAxis(BaseFighter(0, 0), "x", WALL_DISTANCE - WALL_RADIUS - f.radius - 6100, 300),
           OnAxis(f, "x", WALL_DISTANCE - WALL_RADIUS - f.radius - 50, 0),
           FALSE, MaxTicksContact, 0) : f \in {createFighter(t, 0, 0) : t \in FighterTypes} }

Games ==
    ContactGames \cup ContactGamesY \cup RestGames \cup GrowthGames \cup WallGames
    \cup UnevenGames \cup KnockedOutGames \cup ZoneGames \cup HazardGames
    \cup OverlapGames \cup BarrageGames \cup DelayedHitGames \cup WallsideGames

Init == Fresh \/ \E g \in Games : Running(g)

Next ==
    \/ \E t1, t2 \in FighterTypes : StartGame(t1, t2)
    \/ Tick
    \/ checkAndIncreaseStrength
    \/ resetGame

Spec == Init /\ [][Next]_vars

\* the component together with the explicit trigger of the special abilities
NextAbility ==
    \/ Next
    \/ \E i \in 1..2 : SpecialAbility(i)

\* games in which the special abilities are triggered: fighters as created
\* in contact, at rest at the centre, and the grown Archer
\* a fighter flung at a wall that lands on the wall's centre, a Heavy that
\* passes through the arena centre
WallCentreGames ==
    { Game(Flung(createFighter(t, 0, 0), w, 0), OnAxis(HeavyFighter(0, 0), "x", 0, 300),
           FALSE, MaxTicksContact, 0) : t \in FighterTypes, w \in WallAxes }

AbilityGames ==
    ContactGamesY \cup GrowthGames \cup WallCentreGames
    \cup { Game(AtRest(createFighter(t1, 0, 0)), AtRest(createFighter(t2, 0, 0)),
                FALSE, MaxTicksContact, 0) : t1, t2 \in FighterTypes }

InitAbility == Setup(MaxTicksContact) \/ \E g \in AbilityGames : Running(g)

SpecAbility == InitAbility /\ [][NextAbility]_vars

\* createFighter on its own: any tag, the three variants' and unknown ones,
\* at a few positions; lastTick keeps the arguments of the latest call
Tags == FighterTypes \cup {"mage", ""}
Offsets == {0, 20000, -20000}

CreateFighters(t1, t2, x, y) ==
    /\ ~gameStarted
    /\ fighter1' = createFighter(t1, centerX - x, centerY - y)
    /\ fighter2' = createFighter(t2, centerX + x, centerY + y)
    /\ lastTick' = [ran |-> FALSE, tags |-> <<t1, t2>>,
                    at |-> << <<centerX - x, centerY - y>>, <<centerX + x, centerY + y>> >>]
    /\ UNCHANGED <<gameStarted, ballsInCollision, rafPending, timers, budget,
                   timerBudget, prevTick, hist, specialBudget, lastSpecial>>

NextFactory == \E t1, t2 \in Tags : \E x, y \in Offsets : CreateFighters(t1, t2, x, y)

SpecFactory == Fresh /\ [][NextFactory]_vars


\* ------------------------------------------------------------------------
\* Properties
\* ------------------------------------------------------------------------
Fighters == <<fighter1, fighter2>>
Live == fighter1 # NoFighter /\ fighter2 # NoFighter

Events(obs) == {obs.events[k] : k \in 1..Len(obs.events)}
BodyDamage(obs) == \E e \in Events(obs) : e.kind = "body"
Overlapping(obs) == obs.dist < obs.minDist

\* C1: in every reachable state each fighter's hp satisfies 0 <= hp <= maxHp.
C1_HpWithinBounds ==
    Live => \A i \in 1..2 : Fighters[i].hp >= 0 /\ Fighters[i].hp <= Fighters[i].maxHp

\* a damage larger than the remaining hp was applied and hp stopped at 0
W_C1 ==
    /\ lastTick.ran
    /\ \E e \in Events(lastTick) :
         ~e.armedBefore /\ e.hpBefore > 0 /\ e.amount > e.hpBefore /\ e.hpAfter = 0

\* C2: if body damage was applied on a tick and the circles still overlap at
\* the collision step of the next tick, the next tick applies no body damage
\* (the contact flag is still true).
C2_BodyDamageEdgeTriggered ==
    (prevTick.ran /\ lastTick.ran /\ BodyDamage(prevTick) /\ Overlapping(lastTick))
        => (~BodyDamage(lastTick) /\ lastTick.flagBefore)

\* body damage on one tick, circles overlapping at the next
W_C2 ==
    /\ prevTick.ran /\ lastTick.ran
    /\ BodyDamage(prevTick)
    /\ Overlapping(lastTick) /\ lastTick.dist > 0

\* C3: takeDamage(d) of an armed Heavy reduces hp by floor(d / 2) clamped at
\* 0, disarms the shield and zeroes the charge; of an unarmed Heavy it reduces
\* hp by d and leaves armed and charge as they were.
C3_ShieldHalvesOnce ==
    lastTick.ran =>
      \A e \in Events(lastTick) :
        lastTick.atStep[e.target].type = "heavy" =>
          IF e.armedBefore
          THEN /\ e.hpAfter = Max(0, e.hpBefore - (e.amount \div 2))
               /\ ~e.armedAfter
               /\ e.chargeAfter = 0
          ELSE /\ e.hpAfter = Max(0, e.hpBefore - e.amount)
               /\ ~e.armedAfter
               /\ e.chargeAfter = e.chargeBefore

\* an armed Heavy took an odd damage of 3 or more, with some charge on
W_C3 ==
    /\ lastTick.ran
    /\ \E e \in Events(lastTick) :
         /\ lastTick.atStep[e.target].type = "heavy"
         /\ e.armedBefore /\ e.amount >= 3 /\ e.amount % 2 = 1
         /\ e.chargeBefore > 0
         /\ e.hpAfter = e.hpBefore - (e.amount - 1) \div 2

\* C4: a Heavy's shield becomes armed only on a passive tick on which the
\* fighter is in the centre zone and 180 in-zone passive ticks have
\* accumulated since creation or since the shield was last consumed; a tick
\* outside the zone neither increases the charge nor arms the shield.
C4_ShieldArmsAfter180ZoneTicks ==
    lastTick.ran =>
      \A i \in 1..2 :
        lastTick.before[i].type = "heavy" =>
          LET b == lastTick.before[i]
              a == lastTick.atStep[i]
          IN /\ (a.hasShield /\ ~b.hasShield) =>
                   (InZoneAtPassive(b) /\ lastTick.hist.zone[i] + 1 >= ShieldThreshold)
             /\ ~InZoneAtPassive(b) =>
                   (a.shieldCharge = b.shieldCharge /\ a.hasShield = b.hasShield)
             /\ (Live /\ Fighters[i].hasShield) => a.hasShield

\* a shield armed at the end of a run of 180 ticks in the zone
W_C4 ==
    /\ lastTick.ran
    /\ budget = MaxTicksRest - ShieldThreshold
    /\ \E i \in 1..2 :
         /\ lastTick.before[i].type = "heavy"
         /\ lastTick.atStep[i].hasShield /\ ~lastTick.before[i].hasShield
         /\ lastTick.hist.zone[i] + 1 = ShieldThreshold

\* the Archer's passive ability of the last tick emitted a bullet: it holds
\* one bullet more than those of its bullets that stay active after the move
Emitted(obs, i) ==
    /\ obs.atStep[i].type = "archer"
    /\ Len(obs.atStep[i].bullets) =
         1 + Cardinality({k \in 1..Len(obs.before[i].bullets) :
                            MoveBullet(obs.atStep[i], obs.before[i].bullets[k]).active})

\* C5: after every passive emission by an Archer, shootCooldown equals
\* max(cooldownFloor, shootCooldownMax - strength * 1.5) with a small positive
\* cooldownFloor (here the smallest positive value, 0.01).
C5_CooldownAfterEmission ==
    lastTick.ran =>
      \A i \in 1..2 :
        Emitted(lastTick, i) =>
          lastTick.atStep[i].shootCooldown
            = Max(1, shootCooldownMax - lastTick.atStep[i].strength * 150)

\* C6: the Archer's shootCooldown is never negative.
C6_CooldownNeverNegative ==
    Live => \A i \in 1..2 : Fighters[i].type = "archer" => Fighters[i].shootCooldown >= 0

\* the position shootBullet gives a bullet emitted by f at k * 45 degrees
OnCircle(f, k) ==
    [x |-> f.x + RDiv(Cos(RDiv(TwoPi * k, 8)) * f.radius, Unit),
     y |-> f.y + RDiv(Sin(RDiv(TwoPi * k, 8)) * f.radius, Unit)]

\* C7: ArcherFighter.useSpecialAbility adds exactly 8 new active bullets, at
\* the angles k * 45 degrees for k = 0..7, whatever shootCooldown is, and
\* leaves every other field of the owner unchanged.
C7_SpecialEmitsEight ==
    (lastSpecial.ran /\ lastSpecial.before.type = "archer") =>
      LET b == lastSpecial.before
          a == lastSpecial.after
          n == Len(b.bullets)
      IN /\ Len(a.bullets) = n + 8
         /\ SubSeq(a.bullets, 1, n) = b.bullets
         /\ \A k \in 0..7 :
              /\ a.bullets[n + 1 + k].active
              /\ a.bullets[n + 1 + k].x = OnCircle(b, k).x
              /\ a.bullets[n + 1 + k].y = OnCircle(b, k).y
         /\ [a EXCEPT !.bullets = b.bullets] = b

\* a burst fired during the cooldown, with a bullet already in flight
W_C7 ==
    /\ lastSpecial.ran
    /\ lastSpecial.before.type = "archer"
    /\ lastSpecial.before.shootCooldown > 0
    /\ Len(lastSpecial.before.bullets) > 0
    /\ Len(lastSpecial.after.bullets) = Len(lastSpecial.before.bullets) + 8

\* C8: BaseFighter.passiveAbility leaves hp unchanged on a tick where hp is
\* at least 50% of maxHp or hp is 0, whatever the regeneration timer.
C8_NoRegenAtHalfOrKnockedOut ==
    lastTick.ran =>
      \A i \in 1..2 :
        (/\ lastTick.before[i].type = "base"
         /\ (2 * lastTick.before[i].hp >= lastTick.before[i].maxHp
             \/ lastTick.before[i].hp = 0))
          => lastTick.atStep[i].hp = lastTick.before[i].hp

\* a Base fighter at exactly half of maxHp whose timer passed the threshold,
\* facing a knocked-out Base fighter whose timer passed it too
W_C8 ==
    /\ lastTick.ran
    /\ \E i \in 1..2 :
         /\ lastTick.before[i].type = "base"
         /\ 2 * lastTick.before[i].hp = lastTick.before[i].maxHp
         /\ lastTick.before[i].regenTimer + 1 >= RegenThreshold
         /\ lastTick.atStep[i].hp = lastTick.before[i].hp

\* C9 as stated: each regeneration adds exactly 1 hp and happens exactly when
\* 120 passive ticks have elapsed since the fighter went below the threshold
\* or since the previous regeneration.
C9_RegenEvery120TicksBelowHalf ==
    lastTick.ran =>
      \A i \in 1..2 :
        lastTick.before[i].type = "base" =>
          /\ Healed(lastTick, i) =>
               /\ lastTick.atStep[i].hp = lastTick.before[i].hp + 1
               /\ lastTick.hist.low[i] + 1 >= RegenThreshold
          /\ (BelowHalf(lastTick.before[i]) /\ lastTick.hist.low[i] + 1 >= RegenThreshold)
               => Healed(lastTick, i)

\* C9 as amended: each regeneration adds exactly 1 hp and happens exactly on
\* the passive ticks on which 0 < hp < 50% of maxHp and at least 120 passive
\* ticks have elapsed since the fighter was created or last regenerated.
C9_RegenEvery120TicksSinceLast ==
    lastTick.ran =>
      \A i \in 1..2 :
        lastTick.before[i].type = "base" =>
          /\ Healed(lastTick, i) => lastTick.atStep[i].hp = lastTick.before[i].hp + 1
          /\ Healed(lastTick, i) <=>
               (BelowHalf(lastTick.before[i])
                /\ lastTick.hist.regen[i] + 1 >= RegenThreshold)

\* a regeneration at the end of a run of 120 ticks below half hp
W_C9 ==
    /\ lastTick.ran
    /\ budget = MaxTicksRest - RegenThreshold
    /\ \E i \in 1..2 :
         /\ lastTick.before[i].type = "base"
         /\ Healed(lastTick, i)
         /\ lastTick.hist.regen[i] + 1 = RegenThreshold

WallDistance(f, w) == Hypot(f.x - w.x, f.y - w.y)

\* C10 as stated: at the end of every tick no fighter's circle overlaps a wall.
C10_NoWallOverlapAfterTick ==
    (lastTick.ran /\ Live) =>
      \A i \in 1..2 : \A k \in 1..Len(walls) :
        WallDistance(Fighters[i], walls[k]) >= Fighters[i].radius + walls[k].radius

\* C10 as amended: at the end of every tick a fighter's circle overlaps a wall
\* only if the fighter's centre is exactly the wall's centre.
C10_NoWallOverlapUnlessAtWallCentre ==
    (lastTick.ran /\ Live) =>
      \A i \in 1..2 : \A k \in 1..Len(walls) :
        \/ WallDistance(Fighters[i], walls[k]) >= Fighters[i].radius + walls[k].radius
        \/ WallDistance(Fighters[i], walls[k]) = 0

\* a fighter that overlapped a wall when wall resolution began ends the tick
\* touching it
W_C10 ==
    /\ lastTick.ran /\ Live
    /\ \E i \in 1..2 : \E k \in 1..Len(walls) :
         /\ WallDistance(lastTick.beforeWalls[i], walls[k]) > 0
         /\ WallDistance(lastTick.beforeWalls[i], walls[k])
              < Fighters[i].radius + walls[k].radius
         /\ WallDistance(Fighters[i], walls[k]) = Fighters[i].radius + walls[k].radius

\* the damage events of a tick that hit fighter i
EventsOn(obs, i) == {k \in 1..Len(obs.events) : obs.events[k].target = i}

\* C11: on the first tick in which two Base fighters' circles overlap (flag
\* false at the start of the tick, 0 < distance < sum of radii) takeDamage is
\* applied exactly once to each fighter, with the opponent's strength.
C11_FirstContactDamagesEachOnce ==
    (/\ lastTick.ran
     /\ lastTick.before[1].type = "base" /\ lastTick.before[2].type = "base"
     /\ ~lastTick.flagBefore
     /\ lastTick.dist > 0 /\ lastTick.dist < lastTick.minDist)
      => \A i \in 1..2 :
           /\ Cardinality(EventsOn(lastTick, i)) = 1
           /\ \A k \in EventsOn(lastTick, i) :
                LET e == lastTick.events[k]
                IN /\ e.kind = "body"
                   /\ e.amount = lastTick.atStep[3 - i].strength
                   /\ e.hpAfter = Max(0, e.hpBefore - e.amount)

\* a first contact of two Base fighters of different strengths, each of
\* which lost the other's strength in hp
W_C11 ==
    /\ lastTick.ran /\ Live
    /\ lastTick.before[1].type = "base" /\ lastTick.before[2].type = "base"
    /\ ~lastTick.flagBefore
    /\ lastTick.dist > 0 /\ lastTick.dist < lastTick.minDist
    /\ lastTick.atStep[1].strength # lastTick.atStep[2].strength
    /\ fighter1.hp = lastTick.before[1].hp - lastTick.before[2].strength
    /\ fighter2.hp = lastTick.before[2].hp - lastTick.before[1].strength

\* C12: knocked-out is absorbing: a fighter whose hp is 0 has hp 0 after
\* every further tick and strength-timer callback, whatever its variant.
C12_KnockedOutIsAbsorbing ==
    [][ (/\ fighter1 # NoFighter /\ fighter2 # NoFighter
         /\ fighter1' # NoFighter /\ fighter2' # NoFighter)
        => /\ (fighter1.hp = 0 => fighter1'.hp = 0)
           /\ (fighter2.hp = 0 => fighter2'.hp = 0) ]_vars

\* a knocked-out Base fighter whose regeneration timer passed the threshold
\* was hit again and is still at hp 0
W_C12 ==
    /\ lastTick.ran /\ Live
    /\ \E i \in 1..2 :
         /\ lastTick.before[i].type = "base"
         /\ lastTick.before[i].hp = 0
         /\ lastTick.before[i].regenTimer + 1 >= RegenThreshold
         /\ \E k \in EventsOn(lastTick, i) : lastTick.events[k].amount > 0
         /\ Fighters[i].hp = 0

\* the strength gain rate the variants are specified to have
RateOf(type) == IF type = "heavy" THEN 2 ELSE 1

\* the fighter's centre is within its own radius of the arena centre
WithinOwnRadius(f) == Hypot(f.x - centerX, f.y - centerY) < f.radius

\* the fighter after a strength-timer callback, by the claim
AfterCallback(f) ==
    IF WithinOwnRadius(f) THEN [f EXCEPT !.strength = @ + RateOf(f.type)] ELSE f

\* C13: strength is modified only by the strength-timer callback, which adds
\* strengthGainRate to every fighter within its own radius of the centre,
\* nothing to the others, and changes no other field; a tick never changes
\* strength.
C13_StrengthOnlyByTimer ==
    [][ (/\ fighter1 # NoFighter /\ fighter2 # NoFighter
         /\ fighter1' # NoFighter /\ fighter2' # NoFighter)
        => IF timerBudget' # timerBudget
           THEN /\ fighter1' = AfterCallback(fighter1)
                /\ fighter2' = AfterCallback(fighter2)
           ELSE /\ fighter1'.strength = fighter1.strength
                /\ fighter2'.strength = fighter2.strength ]_vars

\* before any tick, one callback has raised the strength of a Heavy at the
\* centre from 2 to 4 and left a Base fighter outside the zone at strength 1
W_C13 ==
    /\ Live /\ lastTick = NoTick
    /\ timerBudget = MaxTimerFires - 1
    /\ fighter1.type = "heavy" /\ fighter1.strength = 4
    /\ fighter2.type = "base" /\ fighter2.strength = 1
    /\ ~WithinOwnRadius(fighter2)

\* C14: the simulation does not stop itself at knockout: while the game is
\* started both fighters exist and a tick is scheduled, whatever their hp.
C14_TickScheduledWhateverHp ==
    gameStarted => (Live /\ rafPending > 0)

\* two ticks in a row ran their passive abilities on two knocked-out
\* fighters, and the next tick is scheduled
W_C14 ==
    /\ gameStarted /\ Live /\ rafPending > 0
    /\ prevTick.ran /\ lastTick.ran
    /\ \A i \in 1..2 : prevTick.before[i].hp = 0 /\ lastTick.before[i].hp = 0
    /\ lastTick.before[2].type = "base"
    /\ lastTick.atStep[2].regenTimer = lastTick.before[2].regenTimer + 1

\* C15: over any sequence of startGame / resetGame at most one tick is
\* pending and at most one strength timer exists; after resetGame none
\* exists and there are no fighters for a tick or a callback to change.
C15_AtMostOneTickAndTimer ==
    /\ rafPending <= 1
    /\ timers <= 1
    /\ ~gameStarted =>
          (rafPending = 0 /\ timers = 0 /\ fighter1 = NoFighter /\ fighter2 = NoFighter)

\* a game started again after a reset: its first tick has run from the
\* starting positions, and one tick and one timer are pending
W_C15 ==
    /\ gameStarted /\ rafPending = 1 /\ timers = 1
    /\ lastTick.ran /\ prevTick = NoTick
    /\ lastTick.before[1].x = centerX - 20000
    /\ budget = MaxTicksContact - 1

\* C16: createFighter returns for the tags base, heavy, archer a fighter of
\* that variant with the variant's stats and zero velocity at the position
\* given, and for any other tag a Base fighter.
C16_FactoryStatsAndFallback ==
    lastTick # NoTick =>
      \A i \in 1..2 :
        LET f == Fighters[i]
            v == IF lastTick.tags[i] \in FighterTypes THEN lastTick.tags[i] ELSE "base"
            stats == CASE v = "base" -> <<100, 1, 30 * Scale, TRUE>>
                       [] v = "heavy" -> <<250, 2, 50 * Scale, FALSE>>
                       [] v = "archer" -> <<150, 3, 28 * Scale, FALSE>>
        IN /\ f.type = v
           /\ f.hp = stats[1] /\ f.maxHp = stats[1]
           /\ f.strength = stats[2]
           /\ f.radius = stats[3]
           /\ f.dealsBodyDamage = stats[4]
           /\ f.vx = 0 /\ f.vy = 0
           /\ f.x = lastTick.at[i][1] /\ f.y = lastTick.at[i][2]

\* an unknown tag gave a Base fighter next to an Archer
W_C16 ==
    /\ lastTick # NoTick
    /\ lastTick.tags = <<"mage", "archer">>
    /\ fighter1.type = "base" /\ fighter1.hp = 100
    /\ fighter2.type = "archer" /\ fighter2.radius = 2800

\* the square of fighter i (a Heavy) reaches the opponent at the collision
\* step of the tick observed
HazardContact(obs, i) ==
    /\ obs.atStep[i].type = "heavy"
    /\ checkSquareCollisionWithFighter(obs.atStep[i], obs.atStep[3 - i])

\* the square damage events of a tick that hit fighter i
SquareEventsOn(obs, i) == {k \in EventsOn(obs, i) : obs.events[k].kind = "square"}

\* C17: while a Heavy's square stays in contact with the opponent on
\* consecutive ticks (bodies not overlapping, no projectile hits), square
\* damage is applied on the first tick of the contact only: a tick whose
\* predecessor was already in contact applies none.
C17_HazardDamageOnFirstTickOnly ==
    (lastTick.ran /\ prevTick.ran) =>
      \A i \in 1..2 :
        (/\ HazardContact(prevTick, i) /\ HazardContact(lastTick, i)
         /\ prevTick.dist >= prevTick.minDist /\ lastTick.dist >= lastTick.minDist
         /\ ~prevTick.bulletHit /\ ~lastTick.bulletHit)
          => SquareEventsOn(lastTick, 3 - i) = {}

\* C18: a tick resets the contact flag to false only if at its collision
\* step the circles are separated (distance >= sum of radii) and no square
\* or bullet hit occurred; never while the circles overlap, coincident
\* centres (distance 0) included.
C18_FlagResetOnlyWhenSeparated ==
    (lastTick.ran /\ lastTick.flagBefore /\ ~ballsInCollision) =>
      /\ lastTick.dist >= lastTick.minDist
      /\ ~lastTick.squareHit /\ ~lastTick.bulletHit

\* C19: a tick applies body damage only when the circles overlap, the contact
\* flag is false and no square or bullet hit dealt damage on that tick, and
\* only from a fighter whose dealsBodyDamage is true, never from a Heavy or
\* an Archer; a Heavy and an Archer whose circles overlap change no hp by
\* the overlap.
C19_BodyDamageOnlyFromBodyDealers ==
    lastTick.ran =>
      /\ \A k \in 1..Len(lastTick.events) :
            LET e == lastTick.events[k]
                dealer == lastTick.atStep[3 - e.target]
            IN e.kind = "body" =>
                 /\ lastTick.dist < lastTick.minDist
                 /\ ~lastTick.flagBefore
                 /\ ~lastTick.squareHit /\ ~lastTick.bulletHit
                 /\ dealer.dealsBodyDamage
                 /\ dealer.type \notin {"heavy", "archer"}
      /\ (/\ {lastTick.atStep[1].type, lastTick.atStep[2].type} = {"heavy", "archer"}
          /\ lastTick.dist < lastTick.minDist
          /\ ~lastTick.squareHit /\ ~lastTick.bulletHit)
           => \A i \in 1..2 : Fighters[i].hp = lastTick.atStep[i].hp

\* a Heavy and an Archer on first contact, no square or bullet hit: no
\* damage event and both hp as before
W_C19 ==
    /\ lastTick.ran /\ Live
    /\ lastTick.atStep[1].type = "heavy" /\ lastTick.atStep[2].type = "archer"
    /\ ~lastTick.flagBefore /\ ~lastTick.squareHit /\ ~lastTick.bulletHit
    /\ lastTick.dist > 0 /\ lastTick.dist < lastTick.minDist
    /\ lastTick.events = << >>
    /\ fighter1.hp = 250 /\ fighter2.hp = 150

\* the bullets of fighter i that hit the opponent at the collision step of
\* the tick observed
HittingBullets(obs, i) ==
    {k \in 1..Len(obs.atStep[i].bullets) :
        HitBullet(obs.atStep[i], obs.atStep[3 - i], obs.atStep[i].bullets[k])}

\* the bullet damage events of a tick that hit fighter i
BulletEventsOn(obs, i) == {k \in EventsOn(obs, i) : obs.events[k].kind = "bullet"}

\* C20: in the bullet step of a tick every active bullet closer to the
\* opponent's centre than bulletRadius + the opponent's radius applies its
\* damage to the opponent: n bullets hitting on the same tick are n damage
\* applications.
C20_OneDamagePerHittingBullet ==
    lastTick.ran =>
      \A i \in 1..2 :
        lastTick.atStep[i].type = "archer" =>
          Cardinality(BulletEventsOn(lastTick, 3 - i))
            = Cardinality(HittingBullets(lastTick, i))

\* C21: the damage a bullet inflicts when it hits is the owner's strength at
\* the moment the bullet was emitted (its damage field), also when the
\* strength timer raised the owner's strength between emission and hit.
C21_BulletDamageIsStrengthAtEmission ==
    lastTick.ran =>
      \A i \in 1..2 :
        \A k \in HittingBullets(lastTick, i) :
          \A e \in BulletEventsOn(lastTick, 3 - i) :
            lastTick.events[e].amount = lastTick.atStep[i].bullets[k].damage

\* C22 as stated: at the end of every tick the owner's bullets collection
\* contains only active bullets.
C22_OnlyActiveBulletsAtEndOfTick ==
    lastTick.ran =>
      \A i \in 1..2 :
        \A k \in 1..Len(Fighters[i].bullets) : Fighters[i].bullets[k].active

\* C22, amended: after the owner's passive step of a tick the collection
\* holds only active bullets within range of the owner; at the end of the
\* tick it holds the same bullets, and the inactive ones are exactly those
\* that struck the opponent on this tick (they are removed by the passive
\* step of the next tick).
C22_InactiveOnlyIfStruckThisTick ==
    lastTick.ran =>
      \A i \in 1..2 :
        LET atStep == lastTick.atStep[i].bullets
            atEnd == Fighters[i].bullets
        IN /\ \A k \in 1..Len(atStep) :
                /\ atStep[k].active
                /\ Hypot(atStep[k].x - lastTick.atStep[i].x,
                         atStep[k].y - lastTick.atStep[i].y) <= BulletRange
           /\ Len(atEnd) = Len(atStep)
           /\ \A k \in 1..Len(atEnd) :
                ~atEnd[k].active <=> k \in HittingBullets(lastTick, i)

\* a tick after a hit: the bullet that struck on the previous tick was still
\* in the collection, inactive, at the end of that tick and is gone now
W_C22 ==
    /\ lastTick.ran /\ prevTick.ran
    /\ \E i \in 1..2 :
         /\ HittingBullets(prevTick, i) # {}
         /\ \E k \in 1..Len(prevTick.beforeWalls[i].bullets) :
              ~prevTick.beforeWalls[i].bullets[k].active
         /\ \A k \in 1..Len(Fighters[i].bullets) : Fighters[i].bullets[k].active

\* C23: within one tick takeDamage is invoked on each fighter at most once,
\* whatever the two variants: square, bullet and body damage against the
\* same fighter exclude one another.
C23_AtMostOneDamagePerFighterPerTick ==
    lastTick.ran => \A i \in 1..2 : Cardinality(EventsOn(lastTick, i)) <= 1

\* a first contact of a Base fighter and a Heavy whose square hits on the
\* same tick: the Base fighter took the square damage only, the Heavy none
W_C23 ==
    /\ lastTick.ran /\ Live
    /\ ~lastTick.flagBefore /\ lastTick.squareHit
    /\ lastTick.dist > 0 /\ lastTick.dist < lastTick.minDist
    /\ \E i \in 1..2 :
         /\ lastTick.atStep[i].type = "base" /\ lastTick.atStep[3 - i].type = "heavy"
         /\ Cardinality(EventsOn(lastTick, i)) = 1
         /\ EventsOn(lastTick, 3 - i) = {}

\* C24 as stated: on every tick in which the circles overlap at the collision
\* step (0 < distance < sum of radii) the distance between the fighters at
\* the end of the tick, after wall resolution, is at least the sum of their
\* radii.
C24_ApartAtEndOfTick ==
    (lastTick.ran /\ lastTick.dist > 0 /\ lastTick.dist < lastTick.minDist)
      => getDistanceTo(fighter1, fighter2) >= lastTick.minDist

\* how far fighter i was moved by the separation of the tick observed
Displacement(obs, i) ==
    Hypot(obs.beforeWalls[i].x - obs.atStep[i].x, obs.beforeWalls[i].y - obs.atStep[i].y)

\* C24, amended: on every tick in which the circles overlap at the collision
\* step (0 < distance < sum of radii), damage or not, each fighter is moved
\* by half the overlap away from the other, so that before wall resolution
\* the two are at least the sum of their radii apart; they still are at the
\* end of the tick unless wall resolution moved one of them.
C24_ApartBeforeWalls ==
    (lastTick.ran /\ lastTick.dist > 0 /\ lastTick.dist < lastTick.minDist) =>
      LET overlap == lastTick.minDist - lastTick.dist
          apart == getDistanceTo(lastTick.beforeWalls[1], lastTick.beforeWalls[2])
      IN /\ \A i \in 1..2 :
              /\ 2 * Displacement(lastTick, i) \in overlap..(overlap + 1)
              /\ getDistanceTo(lastTick.beforeWalls[i], lastTick.atStep[3 - i])
                   > lastTick.dist
         /\ apart >= lastTick.minDist
         /\ apart <= lastTick.minDist + 1
         /\ (\A i \in 1..2 : /\ Fighters[i].x = lastTick.beforeWalls[i].x
                              /\ Fighters[i].y = lastTick.beforeWalls[i].y)
              => getDistanceTo(fighter1, fighter2) >= lastTick.minDist

\* a Base fighter ran into a Heavy standing at the right wall: the
\* separation pushed the Heavy into the wall, the wall pushed it back, and
\* the two circles overlap at the end of the tick
W_C24 ==
    /\ lastTick.ran /\ Live
    /\ lastTick.dist > 0 /\ lastTick.dist < lastTick.minDist
    /\ getDistanceTo(lastTick.beforeWalls[1], lastTick.beforeWalls[2]) >= lastTick.minDist
    /\ fighter2.x < lastTick.beforeWalls[2].x
    /\ getDistanceTo(fighter1, fighter2) < lastTick.minDist

\* the velocity change of fighter i by the collision response of the tick
\* observed, along the collision normal (from fighter 1 to fighter 2)
AlongNormal(obs, i) ==
    LET n == Normal(obs.atStep[1], obs.atStep[2])
    IN (obs.beforeWalls[i].vx - obs.atStep[i].vx) * n[1]
       + (obs.beforeWalls[i].vy - obs.atStep[i].vy) * n[2]

\* C25: the collision impulse is repulsive: for every relative velocity and
\* every outcome of the random factors the velocity change of fighter 1
\* along the collision normal is <= 0 and that of fighter 2 is >= 0.
C25_ImpulseIsRepulsive ==
    (lastTick.ran /\ lastTick.dist > 0 /\ lastTick.dist < lastTick.minDist) =>
      /\ AlongNormal(lastTick, 1) <= 0
      /\ AlongNormal(lastTick, 2) >= 0

\* position and velocity of a fighter
Motion(f) == <<f.x, f.y, f.vx, f.vy>>

\* C26: every distance-based response is skipped at exactly zero distance:
\* applyGravity leaves the velocity of a fighter exactly at the centre
\* unchanged (only damping acts on it); with coincident centres the
\* fighter-fighter step applies no body damage, no separation and no
\* impulse; wall resolution changes nothing for a fighter exactly at a
\* wall's centre; the Heavy's ground slam adds no impulse at the centre.
C26_ZeroDistanceSkipsResponse ==
    /\ lastTick.ran =>
         /\ \A i \in 1..2 :
              (lastTick.before[i].x = centerX /\ lastTick.before[i].y = centerY) =>
                /\ lastTick.atStep[i].vx = RDiv(lastTick.before[i].vx * DAMPING, Scale)
                /\ lastTick.atStep[i].vy = RDiv(lastTick.before[i].vy * DAMPING, Scale)
         /\ lastTick.dist = 0 =>
              /\ \A k \in 1..Len(lastTick.events) : lastTick.events[k].kind # "body"
              /\ \A i \in 1..2 :
                   Motion(lastTick.beforeWalls[i]) = Motion(lastTick.atStep[i])
         /\ \A i \in 1..2 : \A w \in 1..Len(walls) :
              (lastTick.beforeWalls[i].x = walls[w].x /\ lastTick.beforeWalls[i].y = walls[w].y)
                => lastTick.after[i] = lastTick.beforeWalls[i]
    /\ (/\ lastSpecial.ran /\ lastSpecial.before.type = "heavy"
        /\ lastSpecial.before.x = centerX /\ lastSpecial.before.y = centerY)
         => lastSpecial.after = lastSpecial.before

\* a ground slam of a Heavy passing through the arena centre, which left it
\* as it was; then a tick that did not pull the Heavy and left fighter 1 on
\* a wall's centre, overlapping the wall
W_C26 ==
    /\ lastTick.ran /\ lastSpecial.ran /\ Live
    /\ \E w \in 1..Len(walls) : fighter1.x = walls[w].x /\ fighter1.y = walls[w].y
    /\ lastTick.before[2].x = centerX /\ lastTick.before[2].y = centerY
    /\ lastTick.before[2].vx # 0 /\ lastTick.before[2] = lastSpecial.after
    /\ lastSpecial.ran /\ lastSpecial.who = 2 /\ lastSpecial.before.type = "heavy"
    /\ lastSpecial.before.x = centerX /\ lastSpecial.before.y = centerY
    /\ lastSpecial.after = lastSpecial.before

\* C27: the Base regeneration timer goes up by one on every passive tick,
\* whatever the hp, and is reset to 0 only by a heal; so a Base fighter whose
\* hp is below half of maxHp (and not 0) at a tick on which the timer has
\* already reached 120 is healed by 1 on that tick, however recently the hp
\* dropped.
C27_RegenTimerRunsWhateverHp ==
    lastTick.ran =>
      \A i \in 1..2 :
        lastTick.before[i].type = "base" =>
          LET b == lastTick.before[i]
              a == lastTick.atStep[i]
          IN /\ a.regenTimer \in {0, b.regenTimer + 1}
             /\ a.regenTimer = 0 => a.hp = b.hp + 1
             /\ a.regenTimer = b.regenTimer + 1 => a.hp = b.hp
             /\ (b.regenTimer >= RegenThreshold /\ 2 * b.hp < b.maxHp /\ b.hp # 0)
                  => (a.hp = b.hp + 1 /\ a.regenTimer = 0)

\* a Base fighter at half of maxHp or more, its timer past 120, lost hp on
\* one tick and was healed on the next
W_C27 ==
    /\ lastTick.ran /\ prevTick.ran
    /\ \E i \in 1..2 :
         /\ lastTick.before[i].type = "base"
         /\ 2 * prevTick.atStep[i].hp >= prevTick.atStep[i].maxHp
         /\ 2 * lastTick.before[i].hp < lastTick.before[i].maxHp
         /\ lastTick.before[i].regenTimer >= RegenThreshold
         /\ lastTick.atStep[i].hp = lastTick.before[i].hp + 1
         /\ lastTick.atStep[i].regenTimer = 0

\* C28: between ticks a Heavy whose shield is not armed has
\* 0 <= shieldCharge < 180; the charge is 0 right after the arming
\* transition and right after the shield is consumed; a passive tick on an
\* armed shield neither re-arms it nor resets the charge.
C28_ShieldChargeBounds ==
    /\ Live =>
         \A i \in 1..2 :
           (Fighters[i].type = "heavy" /\ ~Fighters[i].hasShield) =>
             (Fighters[i].shieldCharge >= 0 /\ Fighters[i].shieldCharge < ShieldThreshold)
    /\ lastTick.ran =>
         \A i \in 1..2 :
           lastTick.before[i].type = "heavy" =>
             LET b == lastTick.before[i]
                 a == lastTick.atStep[i]
             IN /\ (~b.hasShield /\ a.hasShield) => a.shieldCharge = 0
                /\ b.hasShield =>
                     /\ a.hasShield
                     /\ a.shieldCharge \in {b.shieldCharge, b.shieldCharge + 1}
                /\ \A k \in EventsOn(lastTick, i) :
                     (lastTick.events[k].armedBefore /\ ~lastTick.events[k].armedAfter)
                       => lastTick.events[k].chargeAfter = 0

\* the tick on which a Heavy's charge reached 180: the shield is armed and
\* the charge is back at 0
W_C28 ==
    /\ lastTick.ran /\ Live
    /\ \E i \in 1..2 :
         /\ lastTick.before[i].type = "heavy"
         /\ ~lastTick.before[i].hasShield
         /\ lastTick.before[i].shieldCharge = ShieldThreshold - 1
         /\ Fighters[i].hasShield /\ Fighters[i].shieldCharge = 0

\* C29: a tick on which a square hit or a bullet hit dealt damage ends with
\* the contact flag true, whether or not the bodies overlap; the tick after
\* it therefore applies no square damage and no body damage (bullet damage
\* is not gated by the flag).
C29_HitSetsFlagForNextTick ==
    /\ (lastTick.ran /\ (lastTick.squareHit \/ lastTick.bulletHit)) => ballsInCollision
    /\ (lastTick.ran /\ prevTick.ran /\ (prevTick.squareHit \/ prevTick.bulletHit)) =>
         /\ lastTick.flagBefore
         /\ \A k \in 1..Len(lastTick.events) : lastTick.events[k].kind = "bullet"

\* bullet damage on two consecutive ticks, the bodies apart on both: the
\* flag was set by the first and did not gate the second
W_C29 ==
    /\ lastTick.ran /\ prevTick.ran /\ Live
    /\ prevTick.bulletHit /\ prevTick.dist >= prevTick.minDist
    /\ lastTick.flagBefore
    /\ lastTick.bulletHit /\ lastTick.dist >= lastTick.minDist
    /\ \E k \in 1..Len(lastTick.events) : lastTick.events[k].kind = "bullet"
    /\ ballsInCollision

\* the bullet an Archer emitted in the passive step of the tick observed:
\* the last of its collection
NewBullet(obs, i) == obs.atStep[i].bullets[Len(obs.atStep[i].bullets)]

\* C30: a bullet's velocity at emission is the unit direction (cos a, sin a)
\* scaled by bulletSpeed and by one multiplier that is the same for x and y,
\* plus the owner's velocity: the velocity relative to the owner is parallel
\* to the direction (up to rounding); its damage is the owner's strength and
\* it is active.
C30_BulletVelocityAlongDirection ==
    lastTick.ran =>
      \A i \in 1..2 :
        Emitted(lastTick, i) =>
          LET o == lastTick.atStep[i]
              b == NewBullet(lastTick, i)
              cross == (b.vx - o.vx) * Sin(o.shootAngle) - (b.vy - o.vy) * Cos(o.shootAngle)
          IN /\ Abs(cross) <= 2 * Unit
             /\ b.damage = o.strength
             /\ b.active

\* the pull of gravity on one velocity component of fighter f, d being the
\* component of the vector from f to the centre
Pull(f, d) ==
    RDiv(RDiv(d * Unit, Hypot(centerX - f.x, centerY - f.y))
           * GRAVITY_STRENGTH * f.speedMultiplier, Unit * Scale)

\* C31: each tick integrates every fighter once, gravity then damping then
\* position, before the passive abilities and the collision step: for a
\* fighter not at the centre the new velocity is DAMPING * (old velocity +
\* GRAVITY_STRENGTH * speedMultiplier * unit vector towards the centre) and
\* the new position is the old position + the new velocity; a bullet emitted
\* by the passive step starts from the new position.
C31_GravityDampingPosition ==
    lastTick.ran =>
      \A i \in 1..2 :
        LET b == lastTick.before[i]
            a == lastTick.atStep[i]
        IN /\ (b.x # centerX \/ b.y # centerY) =>
                /\ a.vx = RDiv((b.vx + Pull(b, centerX - b.x)) * DAMPING, Scale)
                /\ a.vy = RDiv((b.vy + Pull(b, centerY - b.y)) * DAMPING, Scale)
           /\ a.x = b.x + a.vx
           /\ a.y = b.y + a.vy
           /\ Emitted(lastTick, i) =>
                /\ NewBullet(lastTick, i).x - NewBullet(lastTick, i).vx
                     = a.x + RDiv(Cos(a.shootAngle) * a.radius, Unit)
                /\ NewBullet(lastTick, i).y - NewBullet(lastTick, i).vy
                     = a.y + RDiv(Sin(a.shootAngle) * a.radius, Unit)

\* a moving Archer off the centre was pulled, damped and moved, and shot
\* from where it had moved to
W_C31 ==
    /\ lastTick.ran /\ Live
    /\ \E i \in 1..2 :
         /\ lastTick.before[i].x # centerX
         /\ lastTick.before[i].vx # 0
         /\ lastTick.atStep[i].vx # lastTick.before[i].vx
         /\ lastTick.atStep[i].x = lastTick.before[i].x + lastTick.atStep[i].vx
         /\ Emitted(lastTick, i)

====
